---- MODULE Spec2Model ----
(***************************************************************************)
(* Model of server/controllers/auth.js: the request handlers register,     *)
(* registerActivate, login, forgetPassword and resetPassword, run as       *)
(* interleaved callback chains over one Account Store (the User            *)
(* collection), a clock, and the e-mail service.                           *)
(*                                                                         *)
(* One action is one JavaScript turn: the handler's synchronous part, or   *)
(* one store / e-mail operation together with the callback that receives   *)
(* its result, up to the next asynchronous call.                           *)
(***************************************************************************)
EXTENDS Integers, Sequences, FiniteSets, TLC

\* ------------------------------------------------------------------ bounds
MaxClock == 2        \* the clock runs over 0..MaxClock (seconds, abstracted)
MaxReq   == 2        \* requests in flight at once
MaxCalls == 4        \* requests received in one run
MaxMail  == 1        \* e-mailed tokens the clients keep and may submit

\* ------------------------------------------------------- program constants
ActivationTTL == 2   \* process.env.JWT_EXPIRED
ResetTTL      == 2   \* '60m'
SessionTTL    == 3   \* '7d'

Emails    == {"e1", "e2"}
Names     == {"n1"}
Passwords == {"p1", "p2"}
Reqs      == 1..MaxReq
Ids       == 1..Cardinality(Emails)   \* the _id values a session token can carry

VARIABLES
  now,      \* the clock jwt.sign / jwt.verify read
  users,    \* the User collection: a set of documents
  req,      \* req[r]: the request in flight in slot r: its locals and position
  mailbox,  \* delivered e-mails (recipient, token) whose token clients may submit
  out,      \* the request that finished in the last step, with its responses
  calls     \* requests received so far

vars == <<now, users, req, mailbox, out, calls>>

\* ------------------------------------------------------------------ tokens
\* A JWT is its payload, the secret that signed it, iat and exp.  HS256 is
\* deterministic: equal payload, secret and second give the equal token.
NoToken == [name |-> "", email |-> "", password |-> "", _id |-> 0,
            secret |-> "", iat |-> 0, exp |-> 0]

Payload(name, email, password, id) ==
  [NoToken EXCEPT !.name = name, !.email = email, !.password = password, !._id = id]

jwtSign(payload, secret, ttl, t) ==
  [payload EXCEPT !.secret = secret, !.iat = t, !.exp = t + ttl]

\* A verify that forgets the expiry.
jwtVerify_noExpiry(token, secret, t) == token.secret = secret

\* jwt.verify: the signature must be by `secret` and the token unexpired
\* (jsonwebtoken rejects when clock >= exp).
jwtVerify(token, secret, t) ==
  /\ token.secret = secret
  /\ t < token.exp

\* A token signed with a key the server does not hold.
ForgedToken == [NoToken EXCEPT !.name = "n1", !.secret = "attacker", !.exp = MaxClock + 2]

\* ------------------------------------------------------------ Account Store
NoUser == [_id |-> 0, username |-> 0, name |-> "", email |-> "", hashed_password |-> <<>>,
           role |-> "", resetPasswordLink |-> NoToken]

\* models/user.js: the password virtual stores a keyed hash, never the text.
encryptPassword(password) == <<"hmac", password>>

authenticate(user, password) == encryptPassword(password) = user.hashed_password

\* new User({username, name, email, password}): role defaults to regular,
\* resetPasswordLink to ''.  _id and the shortId username are fresh values.
NewUser(id, name, email, password) ==
  [_id |-> id, username |-> id, name |-> name, email |-> email,
   hashed_password |-> encryptPassword(password),
   role |-> "regular", resetPasswordLink |-> NoToken]

\* A store without the unique index.
CreateRejected_noIndex(store, doc) == FALSE

\* The unique index on email: an insert of a taken email is rejected.
CreateRejected(store, doc) == \E u \in store : u.email = doc.email

\* What the callbacks keep of a loaded document: its _id, which addresses the
\* later updateOne / save, and the name; no other path is read again.
Loaded(user) == [NoUser EXCEPT !._id = user._id, !.name = user.name]

\* User.findOne(cond): some matching document, or none.
FindByEmail(store, email) == {u \in store : u.email = email}
FindByResetLink(store, link) == {u \in store : u.resetPasswordLink = link}
Doc(store, id) == {u \in store : u._id = id}

\* A write that is not addressed by _id: it lands on every document.
WriteById_everyDoc(store, id, hashed, link, setHash) ==
  {[u EXCEPT !.hashed_password = IF setHash THEN hashed ELSE @,
             !.resetPasswordLink = link] : u \in store}

\* doc.save() / doc.updateOne() of a loaded document: writes the changed
\* paths to the stored document with the same _id.
WriteById(store, id, hashed, link, setHash) ==
  {IF u._id = id
     THEN [u EXCEPT !.hashed_password = IF setHash THEN hashed ELSE @,
                    !.resetPasswordLink = link]
     ELSE u : u \in store}

\* ---------------------------------------------------------------- requests
Idle == [op |-> "none", pc |-> "idle", name |-> "", email |-> "", password |-> "",
         token |-> NoToken, user |-> NoUser, verifyErr |-> FALSE,
         err |-> "", replay |-> FALSE, stale |-> FALSE, next |-> FALSE,
         resp |-> <<>>]

\* A request is received: it takes the lowest free slot (slots are
\* interchangeable).
Receive(r) ==
  /\ calls < MaxCalls
  /\ calls' = calls + 1
  /\ req[r].pc = "idle"
  /\ \A q \in Reqs : q < r => req[q].pc # "idle"

Msg(kind) == [kind |-> kind, token |-> NoToken]

\* The err a store or e-mail callback was handed.
Failed(rq, err) == [rq EXCEPT !.err = err]

\* res.status(..).json(..): one more response written for the request.
Respond(rq, m) == [rq EXCEPT !.resp = Append(@, m)]

\* The handler's last callback returns in this step: the slot is free again,
\* and `out` shows the finished request (its locals, the position it ended
\* at, the responses written for it) until the next step.
Finish(r, rq) ==
  /\ req' = [req EXCEPT ![r] = Idle]
  /\ out' = rq

\* A step that finishes no request.
Quiet == out' = Idle

\* The stores the process can find at start-up: accounts made by earlier
\* activations, with distinct emails and no reset pending.  No handler sets a
\* role: the second account was made admin in the store itself.
Seed1 == NewUser(1, "n1", "e1", "p1")
Seed2 == [NewUser(2, "n1", "e2", "p1") EXCEPT !.role = "admin"]
InitStores == {{}, {Seed1, Seed2}}

Init ==
  /\ now = 0
  /\ users \in InitStores
  /\ req = [r \in Reqs |-> Idle]
  /\ mailbox = {}
  /\ out = Idle
  /\ calls = 0

\* The client keeps the e-mailed token or not, dropping older ones when it
\* would hold more than MaxMail.
Delivered(to, t) ==
  LET mail == [to |-> to, token |-> t]
  IN {mailbox} \cup {m \cup {mail} :
                      m \in {k \in SUBSET mailbox : Cardinality(k \cup {mail}) <= MaxMail}}

Tick ==
  /\ calls' = calls
  /\ now < MaxClock
  /\ now' = now + 1
  /\ Quiet /\ UNCHANGED <<users, req, mailbox>>

\* ---------------------------------------------------------------- register
register(r, name, email, password) ==
  /\ Receive(r)
  /\ req' = [req EXCEPT ![r] = [Idle EXCEPT !.op = "register", !.pc = "r_find",
                                            !.name = name, !.email = email,
                                            !.password = password]]
  /\ Quiet /\ UNCHANGED <<now, users, mailbox>>

\* User.findOne({email}) and its callback; the callback does not look at err.
register_findOne(r, dbErr) ==
  /\ calls' = calls
  /\ req[r].pc = "r_find"
  /\ LET found == IF dbErr THEN {} ELSE FindByEmail(users, req[r].email)
     IN IF found # {}
          THEN Finish(r, Respond(req[r], Msg("EmailTaken400")))
          ELSE /\ req' = [req EXCEPT ![r].pc = "r_send",
                                     ![r].token = jwtSign(Payload(req[r].name, req[r].email,
                                                                  req[r].password, 0),
                                                          "JWT_ACCOUNT_ACTIVATION",
                                                          ActivationTTL, now)]
               /\ Quiet
  /\ UNCHANGED <<now, users, mailbox>>

\* A register that already inserts the account when the e-mail went out.
register_sendEmail_persists(r, sent) ==
  /\ calls' = calls
  /\ req[r].pc = "r_send"
  /\ sent
  /\ mailbox' \in Delivered(req[r].email, req[r].token)
  /\ users' = users \cup {NewUser(Cardinality(users) + 1, req[r].name, req[r].email,
                                   req[r].password)}
  /\ Finish(r, Respond(req[r], Msg("ActivationEmailSent")))
  /\ now' = now

\* ses.sendEmail(..).promise() settles: .then or .catch responds.
register_sendEmail(r, sent) ==
  /\ calls' = calls
  /\ req[r].pc = "r_send"
  /\ IF sent
       THEN /\ mailbox' \in Delivered(req[r].email, req[r].token)
            /\ Finish(r, Respond(req[r], Msg("ActivationEmailSent")))
       ELSE /\ mailbox' = mailbox
            /\ Finish(r, Respond(Failed(req[r], "ses"), Msg("EmailNotVerified422")))
  /\ UNCHANGED <<now, users>>

\* -------------------------------------------------------- registerActivate
registerActivate(r, token) ==
  /\ Receive(r)
  /\ LET rq == [Idle EXCEPT !.op = "activate", !.pc = "start", !.token = token]
     IN IF ~jwtVerify(token, "JWT_ACCOUNT_ACTIVATION", now)
          THEN Finish(r, Respond([rq EXCEPT !.verifyErr = TRUE], Msg("ExpiredLink")))
          ELSE /\ req' = [req EXCEPT ![r] = [rq EXCEPT !.pc = "ra_find",
                                                       !.replay = /\ out.op = "activate"
                                                                  /\ out.token = token
                                                                  /\ out.resp = <<Msg("RegistrationSuccess")>>,
                                                       !.name = token.name,
                                                       !.email = token.email,
                                                       !.password = token.password]]
               /\ Quiet
  /\ UNCHANGED <<now, users, mailbox>>

registerActivate_findOne(r, dbErr) ==
  /\ calls' = calls
  /\ req[r].pc = "ra_find"
  /\ LET found == IF dbErr THEN {} ELSE FindByEmail(users, req[r].email)
     IN IF found # {}
          THEN Finish(r, Respond(req[r], Msg("EmailAlreadyTaken401")))
          ELSE /\ req' = [req EXCEPT ![r].pc = "ra_save"]
               /\ Quiet
  /\ UNCHANGED <<now, users, mailbox>>

\* A save that replaces the account holding the email instead of failing.
registerActivate_save_upsert(r, dbErr) ==
  /\ calls' = calls
  /\ req[r].pc = "ra_save"
  /\ LET newUser == NewUser(Cardinality(users) + 1, req[r].name, req[r].email,
                            req[r].password)
     IN IF dbErr
          THEN /\ users' = users
               /\ Finish(r, Respond(Failed(req[r], "db"), Msg("UnableToSave401")))
          ELSE /\ users' = (users \ FindByEmail(users, req[r].email)) \cup {newUser}
               /\ Finish(r, Respond(req[r], Msg("RegistrationSuccess")))
  /\ UNCHANGED <<now, mailbox>>

\* An activation that answers success without inserting the account.
registerActivate_save_noInsert(r, dbErr) ==
  /\ calls' = calls
  /\ req[r].pc = "ra_save"
  /\ users' = users
  /\ Finish(r, Respond(Failed(req[r], IF dbErr THEN "db" ELSE ""),
                       Msg(IF dbErr THEN "UnableToSave401" ELSE "RegistrationSuccess")))
  /\ UNCHANGED <<now, mailbox>>

\* newUser.save(cb): the insert, and the callback's response.
registerActivate_save(r, dbErr) ==
  /\ calls' = calls
  /\ req[r].pc = "ra_save"
  /\ LET newUser == NewUser(Cardinality(users) + 1, req[r].name, req[r].email,
                            req[r].password)
     IN IF dbErr \/ CreateRejected(users, newUser)
          THEN /\ users' = users
               /\ Finish(r, Respond(Failed(req[r], IF dbErr THEN "db" ELSE "duplicate"),
                                    Msg("UnableToSave401")))
          ELSE /\ users' = users \cup {newUser}
               /\ Finish(r, Respond(req[r], Msg("RegistrationSuccess")))
  /\ UNCHANGED <<now, mailbox>>

\* ------------------------------------------------------------------- login
login(r, email, password) ==
  /\ Receive(r)
  /\ req' = [req EXCEPT ![r] = [Idle EXCEPT !.op = "login", !.pc = "l_find",
                                            !.email = email, !.password = password]]
  /\ Quiet /\ UNCHANGED <<now, users, mailbox>>

\* A login that does not check the password.
login_findOne_noAuthenticate(r, dbErr) ==
  /\ calls' = calls
  /\ req[r].pc = "l_find"
  /\ \/ /\ dbErr \/ FindByEmail(users, req[r].email) = {}
        /\ Finish(r, Respond(Failed(req[r], IF dbErr THEN "db" ELSE ""), Msg("UserNotExists")))
     \/ /\ ~dbErr
        /\ \E user \in FindByEmail(users, req[r].email) :
             Finish(r, Respond([req[r] EXCEPT !.user = Loaded(user)],
                               [kind |-> "LoginOK",
                                token |-> jwtSign(Payload("", "", "", user._id),
                                                  "JWT_SECRET", SessionTTL, now)]))
  /\ UNCHANGED <<now, users, mailbox>>

login_findOne(r, dbErr) ==
  /\ calls' = calls
  /\ req[r].pc = "l_find"
  /\ \/ /\ dbErr \/ FindByEmail(users, req[r].email) = {}
        /\ Finish(r, Respond(Failed(req[r], IF dbErr THEN "db" ELSE ""), Msg("UserNotExists")))
     \/ /\ ~dbErr
        /\ \E user \in FindByEmail(users, req[r].email) :
             IF ~authenticate(user, req[r].password)
               THEN Finish(r, Respond([req[r] EXCEPT !.user = Loaded(user)], Msg("PasswordNotMatch")))
               ELSE Finish(r, Respond([req[r] EXCEPT !.user = Loaded(user)],
                                      [kind |-> "LoginOK",
                                       token |-> jwtSign(Payload("", "", "", user._id),
                                                         "JWT_SECRET", SessionTTL, now)]))
  /\ UNCHANGED <<now, users, mailbox>>

\* ------------------------------------------- authMiddleware, adminMiddleware
\* req.user is the payload of the session token that requireSignIn verified.
authMiddleware(r, id) ==
  /\ Receive(r)
  /\ req' = [req EXCEPT ![r] = [Idle EXCEPT !.op = "auth", !.pc = "au_find",
                                            !.token = Payload("", "", "", id)]]
  /\ Quiet /\ UNCHANGED <<now, users, mailbox>>

\* User.findOne({_id}) and its callback: an error response, or req.profile is
\* set and next() is called.
authMiddleware_findOne(r, dbErr) ==
  /\ calls' = calls
  /\ req[r].pc = "au_find"
  /\ \/ /\ dbErr \/ Doc(users, req[r].token._id) = {}
        /\ Finish(r, Respond(Failed(req[r], IF dbErr THEN "db" ELSE ""),
                             Msg("UserNotFound")))
     \/ /\ ~dbErr
        /\ \E user \in Doc(users, req[r].token._id) :
             Finish(r, [req[r] EXCEPT !.user = Loaded(user), !.next = TRUE])
  /\ UNCHANGED <<now, users, mailbox>>

adminMiddleware(r, id) ==
  /\ Receive(r)
  /\ req' = [req EXCEPT ![r] = [Idle EXCEPT !.op = "admin", !.pc = "am_find",
                                            !.token = Payload("", "", "", id)]]
  /\ Quiet /\ UNCHANGED <<now, users, mailbox>>

\* An adminMiddleware that does not look at the role.
adminMiddleware_findOne_anyRole(r, dbErr) ==
  /\ calls' = calls
  /\ req[r].pc = "am_find"
  /\ \/ /\ dbErr \/ Doc(users, req[r].token._id) = {}
        /\ Finish(r, Respond(Failed(req[r], IF dbErr THEN "db" ELSE ""),
                             Msg("UserNotFound")))
     \/ /\ ~dbErr
        /\ \E user \in Doc(users, req[r].token._id) :
             Finish(r, [req[r] EXCEPT !.user = Loaded(user), !.next = TRUE])
  /\ UNCHANGED <<now, users, mailbox>>

\* User.findOne({_id}) and its callback: not found, not admin, or req.profile
\* is set and next() is called.
adminMiddleware_findOne(r, dbErr) ==
  /\ calls' = calls
  /\ req[r].pc = "am_find"
  /\ \/ /\ dbErr \/ Doc(users, req[r].token._id) = {}
        /\ Finish(r, Respond(Failed(req[r], IF dbErr THEN "db" ELSE ""),
                             Msg("UserNotFound")))
     \/ /\ ~dbErr
        /\ \E user \in Doc(users, req[r].token._id) :
             IF user.role # "admin"
               THEN Finish(r, Respond([req[r] EXCEPT !.user = Loaded(user)],
                                      Msg("AdminDenied")))
               ELSE Finish(r, [req[r] EXCEPT !.user = Loaded(user), !.next = TRUE])
  /\ UNCHANGED <<now, users, mailbox>>

\* ---------------------------------------------------------- forgetPassword
forgetPassword(r, email) ==
  /\ Receive(r)
  /\ req' = [req EXCEPT ![r] = [Idle EXCEPT !.op = "forget", !.pc = "fp_find",
                                            !.email = email]]
  /\ Quiet /\ UNCHANGED <<now, users, mailbox>>

forgetPassword_findOne(r, dbErr) ==
  /\ calls' = calls
  /\ req[r].pc = "fp_find"
  /\ \/ /\ dbErr \/ FindByEmail(users, req[r].email) = {}
        /\ Finish(r, Respond(Failed(req[r], IF dbErr THEN "db" ELSE ""),
                             Msg("NoUserWithEmail")))
     \/ /\ ~dbErr
        /\ \E user \in FindByEmail(users, req[r].email) :
             /\ req' = [req EXCEPT ![r].pc = "fp_update",
                                   ![r].user = Loaded(user),
                                   ![r].token = jwtSign(Payload(user.name, "", "", 0),
                                                        "JWT_RESET_PASSWORD", ResetTTL, now)]
             /\ Quiet
  /\ UNCHANGED <<now, users, mailbox>>

\* A forgetPassword whose callback does not look at err: it goes on to
\* sendEmail although nothing was stored.
forgetPassword_updateOne_ignoresErr(r, dbErr) ==
  /\ calls' = calls
  /\ req[r].pc = "fp_update"
  /\ users' = IF dbErr THEN users
                       ELSE WriteById(users, req[r].user._id, <<>>, req[r].token, FALSE)
  /\ req' = [req EXCEPT ![r].pc = "fp_send"]
  /\ Quiet
  /\ UNCHANGED <<now, mailbox>>

\* user.updateOne({resetPasswordLink: token}, cb): the write, and the callback,
\* which responds on err and otherwise calls ses.sendEmail.
forgetPassword_updateOne(r, dbErr) ==
  /\ calls' = calls
  /\ req[r].pc = "fp_update"
  /\ IF dbErr
       THEN /\ users' = users
            /\ Finish(r, Respond(Failed(req[r], "db"), Msg("ResetFailed")))
       ELSE /\ users' = WriteById(users, req[r].user._id, <<>>, req[r].token, FALSE)
            /\ req' = [req EXCEPT ![r].pc = "fp_send"]
            /\ Quiet
  /\ UNCHANGED <<now, mailbox>>

\* The sendEmail promise settles.  The .catch handler evaluates the undeclared
\* identifier APPLICATION_ERROR_CODE: it throws before res.status is called.
forgetPassword_sendEmail(r, sent) ==
  /\ calls' = calls
  /\ req[r].pc = "fp_send"
  /\ IF sent
       THEN /\ mailbox' \in Delivered(req[r].email, req[r].token)
            /\ Finish(r, Respond(req[r], Msg("ResetEmailSent")))
       ELSE /\ mailbox' = mailbox
            /\ Finish(r, Failed(req[r], "ses"))
  /\ UNCHANGED <<now, users>>

\* ----------------------------------------------------------- resetPassword
\* History: the link was e-mailed to an account whose resetPasswordLink now
\* holds a token issued later, and no forgetPassword that signed this link
\* is still to write it.
Stale(link) ==
  /\ \E m \in mailbox, u \in users :
       /\ m.token = link
       /\ u.email = m.to
       /\ u.resetPasswordLink # NoToken
       /\ u.resetPasswordLink.iat > link.iat
  /\ \A q \in Reqs : ~(req[q].op = "forget" /\ req[q].token = link)

\* A resetPassword without the `if (resetPasswordLink)` guard.
resetPassword_noGuard(r, resetPasswordLink, newPassword) ==
  /\ Receive(r)
  /\ LET rq  == [Idle EXCEPT !.op = "reset", !.pc = "start", !.token = resetPasswordLink,
                             !.password = newPassword]
         err == ~jwtVerify(resetPasswordLink, "JWT_RESET_PASSWORD", now)
         v   == [rq EXCEPT !.pc = "rp_find", !.verifyErr = err,
                           !.stale = Stale(resetPasswordLink)]
     IN /\ req' = [req EXCEPT ![r] = IF err THEN Respond(v, Msg("TokenExpired")) ELSE v]
        /\ Quiet
  /\ UNCHANGED <<now, users, mailbox>>

\* The synchronous part: nothing at all for an empty link; otherwise
\* jwt.verify, whose callback responds on error and returns to the handler,
\* which goes on to User.findOne either way.
resetPassword(r, resetPasswordLink, newPassword) ==
  /\ Receive(r)
  /\ LET rq == [Idle EXCEPT !.op = "reset", !.pc = "start", !.token = resetPasswordLink,
                            !.password = newPassword]
     IN IF resetPasswordLink = NoToken
          THEN Finish(r, rq)
          ELSE LET err == ~jwtVerify(resetPasswordLink, "JWT_RESET_PASSWORD", now)
                   v   == [rq EXCEPT !.pc = "rp_find", !.verifyErr = err,
                                     !.replay = /\ out.op = "reset"
                                                /\ out.token = resetPasswordLink
                                                /\ out.resp = <<Msg("ResetSuccess")>>,
                                     !.stale = Stale(resetPasswordLink)]
               IN /\ req' = [req EXCEPT ![r] = IF err THEN Respond(v, Msg("TokenExpired"))
                                                     ELSE v]
                  /\ Quiet
  /\ UNCHANGED <<now, users, mailbox>>

\* User.findOne({resetPasswordLink}) and its callback, which extends the
\* loaded document and calls save.
resetPassword_findOne(r, dbErr) ==
  /\ calls' = calls
  /\ req[r].pc = "rp_find"
  /\ \/ /\ dbErr \/ FindByResetLink(users, req[r].token) = {}
        /\ Finish(r, Respond(Failed(req[r], IF dbErr THEN "db" ELSE ""),
                             Msg("PasswordResetFailed")))
     \/ /\ ~dbErr
        /\ \E user \in FindByResetLink(users, req[r].token) :
             /\ req' = [req EXCEPT ![r].pc = "rp_save", ![r].user = Loaded(user)]
             /\ Quiet
  /\ UNCHANGED <<now, users, mailbox>>

\* user.save(cb): the write of password and resetPasswordLink, and the
\* callback.  On err the callback evaluates the undeclared identifier
\* APPLICATION_ERROR_CODE and throws before responding.
resetPassword_save(r, dbErr) ==
  /\ calls' = calls
  /\ req[r].pc = "rp_save"
  /\ IF dbErr
       THEN /\ users' = users
            /\ Finish(r, Failed(req[r], "db"))
       ELSE /\ users' = WriteById(users, req[r].user._id,
                                  encryptPassword(req[r].password), NoToken, TRUE)
            /\ Finish(r, Respond(req[r], Msg("ResetSuccess")))
  /\ UNCHANGED <<now, mailbox>>

\* ------------------------------------------------------------------- system
Submitted == {m.token : m \in mailbox} \cup {ForgedToken}

Register(R) ==
  \/ \E r \in R, n \in Names, e \in Emails, p \in Passwords : register(r, n, e, p)
  \/ \E r \in R, b \in BOOLEAN : register_findOne(r, b)
  \/ \E r \in R, b \in BOOLEAN : register_sendEmail(r, b)

Activate(R) ==
  \/ \E r \in R, t \in Submitted : registerActivate(r, t)
  \/ \E r \in R, b \in BOOLEAN : registerActivate_findOne(r, b)
  \/ \E r \in R, b \in BOOLEAN : registerActivate_save(r, b)

Login(R) ==
  \/ \E r \in R, e \in Emails, p \in Passwords : login(r, e, p)
  \/ \E r \in R, b \in BOOLEAN : login_findOne(r, b)

Auth(R) ==
  \/ \E r \in R, id \in Ids : authMiddleware(r, id)
  \/ \E r \in R, b \in BOOLEAN : authMiddleware_findOne(r, b)

Admin(R) ==
  \/ \E r \in R, id \in Ids : adminMiddleware(r, id)
  \/ \E r \in R, b \in BOOLEAN : adminMiddleware_findOne(r, b)

Forget(R) ==
  \/ \E r \in R, e \in Emails : forgetPassword(r, e)
  \/ \E r \in R, b \in BOOLEAN : forgetPassword_findOne(r, b)
  \/ \E r \in R, b \in BOOLEAN : forgetPassword_updateOne(r, b)
  \/ \E r \in R, b \in BOOLEAN : forgetPassword_sendEmail(r, b)

Reset(R) ==
  \/ \E r \in R, t \in Submitted \cup {NoToken}, p \in Passwords : resetPassword(r, t, p)
  \/ \E r \in R, b \in BOOLEAN : resetPassword_findOne(r, b)
  \/ \E r \in R, b \in BOOLEAN : resetPassword_save(r, b)

\* Every request handler, one request at a time.
Next ==
  Tick \/ Register({1}) \/ Activate({1}) \/ Login({1}) \/ Forget({1}) \/ Reset({1})

\* Sign-up and sign-in, one request at a time.
NextSignup == Tick \/ Register({1}) \/ Activate({1}) \/ Login({1})

\* Password recovery, one request at a time.
NextRecovery == Tick \/ Forget({1}) \/ Reset({1})

\* The two middlewares behind login, one request at a time.
NextMiddleware == Tick \/ Login({1}) \/ Auth({1}) \/ Admin({1})

\* Every handler and middleware, one request at a time.
NextAll == Next \/ Auth({1}) \/ Admin({1})

\* Registration and activation requests interleaved, on an empty store.
NextActivation == Tick \/ Register(Reqs) \/ Activate(Reqs)

\* forgetPassword and resetPassword requests interleaved, on a store of two
\* accounts with the same display name.
NextReset == Tick \/ Forget(Reqs) \/ Reset(Reqs)

InitActivation == Init /\ users = {}
InitReset == Init /\ users = {Seed1, Seed2}

Spec == Init /\ [][Next]_vars
SpecSignup == Init /\ [][NextSignup]_vars
SpecRecovery == Init /\ [][NextRecovery]_vars
SpecMiddleware == Init /\ [][NextMiddleware]_vars
SpecAll == Init /\ [][NextAll]_vars
SpecActivation == InitActivation /\ [][NextActivation]_vars
SpecReset == InitReset /\ [][NextReset]_vars

\* ------------------------------------------------------------------ claims
\* The kinds of the responses written for a request, in order.
Kinds(rq) == [i \in DOMAIN rq.resp |-> rq.resp[i].kind]

\* Request r takes a step / returns from its last callback in this step.
Steps(r) == req'[r] # req[r]
Finishes(r) == req[r].pc # "idle" /\ req'[r].pc = "idle"

\* C1: under any interleaving of register and registerActivate requests the
\* store never holds two accounts with the same email.
EmailUnique == \A u, v \in users : u.email = v.email => u = v

\* Two activations of different tokens for one email overlapped: the second
\* passed its findOne check and had its insert rejected by the store.
EmailUnique_Witness ==
  /\ out.op = "activate" /\ out.pc = "ra_save" /\ out.err = "duplicate"
  /\ \E u \in users : u.email = out.email /\ ~authenticate(u, out.password)

\* Only error responses were written for a resetPassword request, at least one.
ResetRefused(rq) ==
  /\ Len(rq.resp) >= 1
  /\ \A i \in DOMAIN rq.resp : rq.resp[i].kind \in {"TokenExpired", "PasswordResetFailed"}

\* C2: after a resetPassword with a token has completed with success, every
\* later resetPassword carrying the same token gets a failure response and
\* changes no account.
ResetTokenNotReplayable ==
  [][\A r \in Reqs :
       (req[r].op = "reset" /\ req[r].replay /\ Steps(r)) =>
         /\ users' = users
         /\ Finishes(r) => ResetRefused(out')]_vars

\* A request's password write went through.
ResetDone(rq) == rq.op = "reset" /\ rq.pc = "rp_save" /\ rq.err = ""

\* C3: of the resetPassword requests that carry the same token, at most one
\* changes the password and gets the success response.
ResetTokenSingleUse ==
  [][\A r \in Reqs :
       (Finishes(r) /\ ResetDone(out') /\ ResetDone(out)) => out'.token # out.token]_vars

\* C4: a resetPassword request whose token failed verification never changes
\* the password or the resetPasswordLink of any account.
ExpiredResetChangesNothing ==
  [][\A r \in Reqs :
       (req[r].op = "reset" /\ req[r].verifyErr /\ Steps(r)) => users' = users]_vars

\* C5: once a second forgetPassword has overwritten the account's
\* resetPasswordLink, resetPassword with the first token fails with the
\* not-found failure and changes no password.
StaleResetTokenFails ==
  [][\A r \in Reqs :
       (req[r].op = "reset" /\ req[r].stale /\ ~req[r].verifyErr /\ Steps(r)) =>
         /\ users' = users
         /\ Finishes(r) => Kinds(out') = <<"PasswordResetFailed">>]_vars

\* C6: an Activation Token submitted after its expiry never passes
\* verification; the request ends at once with the expired-link error and the
\* store is left as it was.
ExpiredActivationFails ==
  [][/\ \A r \in Reqs :
          (calls' # calls /\ Steps(r) /\ req'[r].op = "activate") =>
            now < req'[r].token.exp
     /\ (calls' # calls /\ req' = req /\ out'.op = "activate") =>
          /\ Kinds(out') = <<"ExpiredLink">>
          /\ users' = users]_vars

\* A correctly signed token for a free email was submitted after its expiry
\* and got the expired-link error.
ExpiredActivationFails_Witness ==
  /\ out.op = "activate" /\ out.pc = "start"
  /\ out.token.secret = "JWT_ACCOUNT_ACTIVATION" /\ now >= out.token.exp
  /\ Kinds(out) = <<"ExpiredLink">>
  /\ FindByEmail(users, out.token.email) = {}

\* The finished login asked for an account that exists, with a password that
\* does not authenticate against it.
WrongPassword(rq) ==
  \E u \in users : u.email = rq.email /\ ~authenticate(u, rq.password)

\* A finished login gets a token only for an existing account that the
\* password authenticates against.
TokenOnlyForPassword(rq) ==
  \A i \in DOMAIN rq.resp :
    rq.resp[i].kind = "LoginOK" =>
      \E u \in users : /\ u.email = rq.email
                       /\ authenticate(u, rq.password)
                       /\ rq.resp[i].token._id = u._id

\* C7 as stated: login returns a Session Token only for an existing account
\* and its password, and a correct email with an incorrect password always
\* gets the password-mismatch error.
LoginWrongPasswordMismatch ==
  out.op = "login" =>
    /\ TokenOnlyForPassword(out)
    /\ WrongPassword(out) => Kinds(out) = <<"PasswordNotMatch">>

\* C7 amended: login returns a Session Token only for an existing account and
\* its password; a correct email with an incorrect password gets the
\* password-mismatch error, or the no-such-user error when the store lookup
\* itself fails, and never a token.
LoginNeedsPassword ==
  out.op = "login" =>
    /\ TokenOnlyForPassword(out)
    /\ WrongPassword(out) =>
         Kinds(out) = IF out.err = "db" THEN <<"UserNotExists">>
                                        ELSE <<"PasswordNotMatch">>

LoginNeedsPassword_Witness ==
  /\ out.op = "login" /\ WrongPassword(out)
  /\ Kinds(out) = <<"PasswordNotMatch">>

\* C8: register creates no account; every account that appears in the store
\* is inserted by a registerActivate whose token verified and whose payload
\* email is the account's email.
OnlyActivationCreates ==
  [][\A u \in users' :
       u._id \notin {v._id : v \in users} =>
         \E r \in Reqs :
           /\ req[r].op = "activate" /\ req[r].pc = "ra_save" /\ Finishes(r)
           /\ ~req[r].verifyErr
           /\ req[r].token.secret = "JWT_ACCOUNT_ACTIVATION"
           /\ u.email = req[r].token.email]_vars

OnlyActivationCreates_Witness ==
  /\ out.op = "activate" /\ Kinds(out) = <<"RegistrationSuccess">>
  /\ \E u \in users : u.email = out.token.email /\ authenticate(u, out.token.password)

\* A forgetPassword request gets to sendEmail only through an updateOne that
\* stored its token; a failed updateOne ends it with the error and no e-mail;
\* and only such a request's sendEmail delivers a reset e-mail.
PersistThenSend(r) ==
  /\ (req[r].pc = "fp_update" /\ Steps(r)) =>
       \/ /\ req'[r].pc = "fp_send"
          /\ \E u \in Doc(users', req[r].user._id) : u.resetPasswordLink = req[r].token
          /\ mailbox' = mailbox
       \/ /\ req'[r].pc = "idle"
          /\ Kinds(out') = <<"ResetFailed">>
          /\ users' = users /\ mailbox' = mailbox
  /\ (req'[r].pc = "fp_send" /\ Steps(r)) => req[r].pc = "fp_update"
  /\ (req[r].pc # "fp_send" /\ Steps(r)) => mailbox' = mailbox

\* C9 as stated: the reset e-mail is sent only after the token was persisted,
\* a failed update sends none, and every reset e-mail sent carries a token
\* that is stored in the account at the moment of sending.
SentTokenIsStored ==
  [][\A r \in Reqs :
       /\ PersistThenSend(r)
       /\ (req[r].pc = "fp_send" /\ Finishes(r) /\ Kinds(out') = <<"ResetEmailSent">>) =>
            \E u \in Doc(users, req[r].user._id) : u.resetPasswordLink = req[r].token]_vars

\* C9 amended: the reset e-mail is sent only after the same request has
\* persisted its token, and a failed update sends none; the stored link may
\* have been replaced or cleared by another request by the time of sending.
TokenPersistedBeforeSend == [][\A r \in Reqs : PersistThenSend(r)]_vars

\* A reset e-mail went out for a token that another request had replaced in
\* the account since this request stored it.
TokenPersistedBeforeSend_Witness ==
  /\ out.op = "forget" /\ Kinds(out) = <<"ResetEmailSent">>
  /\ [to |-> out.email, token |-> out.token] \in mailbox
  /\ \E u \in Doc(users, out.user._id) : u.resetPasswordLink # out.token

\* C10: when the e-mail service fails to deliver, the request that called it
\* (register or forgetPassword) ends with one error response.
DeliveryFailureReported ==
  (out.op \in {"register", "forget"} /\ out.err = "ses") =>
    (Len(out.resp) = 1 /\ out.resp[1].kind \in {"EmailNotVerified422", "ResetEmailFailed"})

\* C11: a resetPassword request that found the account by its reset token
\* always ends with a response: the success message when the save succeeded,
\* the persistence-failure error when the save failed.
ResetSaveAnswered ==
  (out.op = "reset" /\ out.pc = "rp_save") =>
    /\ Len(out.resp) >= 1
    /\ out.resp[Len(out.resp)].kind = IF out.err = "db" THEN "SavingFailed"
                                                        ELSE "ResetSuccess"

\* C12: a register whose email already belongs to an account fails with the
\* email-is-taken error (400) and has no other effect: no Activation Token is
\* issued, no e-mail is sent and the store is unchanged.
RegisterTakenEmailFails ==
  [][\A r \in Reqs :
       (req[r].op = "register" /\ req[r].pc = "r_find" /\ Steps(r)
          /\ FindByEmail(users, req[r].email) # {}) =>
         /\ Finishes(r)
         /\ Kinds(out') = <<"EmailTaken400">>
         /\ out'.token = NoToken
         /\ users' = users /\ mailbox' = mailbox]_vars

\* The account a verified Activation Token stands for: its email, the
\* registered password (stored hashed, not as text) and the regular role.
Registered(store, token) ==
  \E u \in store : /\ u.email = token.email
                   /\ u.name = token.name
                   /\ u.role = "regular"
                   /\ authenticate(u, token.password)
                   /\ u.hashed_password # token.password

\* C13: end to end, with the store answering: register for an unused email
\* issues a token; registerActivate with that token, unexpired, inserts an
\* account with that email and role regular; a following login with the
\* registered email and password returns a Session Token for that account.
RegisterActivateLogin ==
  [][\A r \in Reqs :
       /\ (req[r].op = "register" /\ Finishes(r) /\ Kinds(out') = <<"ActivationEmailSent">>) =>
            /\ jwtVerify(out'.token, "JWT_ACCOUNT_ACTIVATION", out'.token.iat)
            /\ out'.token.email = out'.email /\ out'.token.password = out'.password
            /\ users' = users
       /\ (req[r].op = "activate" /\ Finishes(r) /\ ~out'.verifyErr /\ out'.err = ""
             /\ FindByEmail(users, req[r].email) = {}) =>
            /\ Kinds(out') = <<"RegistrationSuccess">>
            /\ Registered(users', out'.token)
       /\ (req[r].op = "login" /\ Finishes(r) /\ out'.err = ""
             /\ \E u \in users : u.email = req[r].email /\ authenticate(u, req[r].password)) =>
            /\ Kinds(out') = <<"LoginOK">>
            /\ jwtVerify(out'.resp[1].token, "JWT_SECRET", now)
            /\ \E u \in users : u.email = req[r].email /\ u._id = out'.resp[1].token._id]_vars

\* register, registerActivate and login were the three requests of the run:
\* the login got a Session Token for the account the activation inserted.
RegisterActivateLogin_Witness ==
  /\ calls = 3
  /\ out.op = "login" /\ Kinds(out) = <<"LoginOK">>
  /\ users = {NewUser(1, "n1", out.email, out.password)}
  /\ out.resp[1].token._id = 1

\* C14: adminMiddleware calls next (with req.profile set) only when the
\* account the session token names exists and its role is admin; in every
\* other case it writes one error response and next is not called.
AdminOnly ==
  [][\A r \in Reqs :
       (req[r].op = "admin" /\ Finishes(r)) =>
         LET isAdmin == \E u \in Doc(users, req[r].token._id) : u.role = "admin"
         IN /\ users' = users
            /\ out'.next =>
                 /\ isAdmin
                 /\ out'.user._id = req[r].token._id
                 /\ out'.resp = <<>>
            /\ ~out'.next => Len(out'.resp) = 1
            /\ ~isAdmin =>
                 /\ ~out'.next
                 /\ Kinds(out') \in {<<"UserNotFound">>, <<"AdminDenied">>}]_vars

\* The middleware refused a session of an existing account that is not admin.
AdminOnly_Witness ==
  /\ out.op = "admin" /\ ~out.next /\ Kinds(out) = <<"AdminDenied">>
  /\ \E u \in Doc(users, out.token._id) : u.role = "regular"

\* Whatever the submissions of an Activation Token do, at most one of them
\* inserts an account: an insert for a token happens only while no account
\* holds the token's email, and afterwards one does.  No activation changes
\* an account that exists.
ActivationInsertsOnce(r) ==
  (req[r].op = "activate" /\ Steps(r)) =>
    /\ \A u \in users : u \in users'
    /\ users' # users =>
         /\ FindByEmail(users, req[r].token.email) = {}
         /\ Registered(users', req[r].token)
         /\ Cardinality(users') = Cardinality(users) + 1

\* C15 as stated: an Activation Token is consumed exactly once: at most one
\* submission creates an account, and every submission after a successful one
\* gets the 'Email is already taken' error and leaves the account unchanged.
ActivationReplayEmailTaken ==
  [][\A r \in Reqs :
       /\ ActivationInsertsOnce(r)
       /\ (calls' # calls /\ out'.op = "activate" /\ out'.token = out.token
             /\ Kinds(out) = <<"RegistrationSuccess">>) =>
            Kinds(out') = <<"EmailAlreadyTaken401">>
       /\ (req[r].op = "activate" /\ req[r].replay /\ Finishes(r)) =>
            Kinds(out') = <<"EmailAlreadyTaken401">>]_vars

\* C15 amended: at most one submission creates an account, and every
\* submission after a successful one gets an error and leaves the account
\* unchanged: 'Email is already taken', or the expired-link error when the
\* token has expired by then, or the unable-to-save error when the lookup
\* fails and the store rejects the second insert.
ActivationConsumedOnce ==
  [][\A r \in Reqs :
       /\ ActivationInsertsOnce(r)
       /\ (calls' # calls /\ out'.op = "activate" /\ out'.token = out.token
             /\ Kinds(out) = <<"RegistrationSuccess">>) =>
            /\ Kinds(out') = <<"ExpiredLink">>
            /\ now >= out'.token.exp
       /\ (req[r].op = "activate" /\ req[r].replay /\ Steps(r)) =>
            /\ users' = users
            /\ Finishes(r) =>
                 \/ Kinds(out') = <<"EmailAlreadyTaken401">>
                 \/ Kinds(out') = <<"UnableToSave401">> /\ out'.err \in {"db", "duplicate"}]_vars

\* The token that created the account was submitted again and got the
\* email-taken error; the account still authenticates the registered password.
ActivationConsumedOnce_Witness ==
  /\ out.op = "activate" /\ out.replay /\ Kinds(out) = <<"EmailAlreadyTaken401">>
  /\ Registered(users, out.token)

\* C16: resetPassword with an absent or empty resetPasswordLink is a silent
\* no-op: the handler returns at once, no account is read or modified and no
\* response is written for the request.
EmptyLinkSilent ==
  [][/\ \A r \in Reqs :
          (Steps(r) /\ req'[r].op = "reset") => req'[r].token # NoToken
     /\ (calls' # calls /\ out'.op = "reset" /\ out'.token = NoToken) =>
          /\ out'.pc = "start"
          /\ out'.resp = <<>>
          /\ out'.user = NoUser
          /\ users' = users /\ mailbox' = mailbox]_vars

\* A resetPassword with an empty link returned while an account with no reset
\* pending (its resetPasswordLink is the empty value too) was in the store.
EmptyLinkSilent_Witness ==
  /\ out.op = "reset" /\ out.token = NoToken /\ out.pc = "start" /\ out.resp = <<>>
  /\ FindByResetLink(users, NoToken) # {}

\* C17: every handler writes at most one response per request, on every path
\* of register, registerActivate, login, forgetPassword and resetPassword.
AtMostOneResponse ==
  /\ Len(out.resp) <= 1
  /\ \A r \in Reqs : Len(req[r].resp) <= 1

\* C18: no two distinct accounts hold the same non-empty resetPasswordLink, so
\* the token forgetPassword issued for one account finds only that account.
ResetLinkUnique ==
  \A u, v \in users :
    (u.resetPasswordLink # NoToken /\ u.resetPasswordLink = v.resetPasswordLink) => u = v

\* The handler that takes this step ("none" for a tick of the clock), and its
\* request as it stood before the step.
Actor ==
  IF out' # Idle THEN out'.op
  ELSE IF \E r \in Reqs : Steps(r) THEN req'[CHOOSE r \in Reqs : Steps(r)].op
  ELSE "none"

\* C19: register, login, authMiddleware and adminMiddleware leave the store
\* unchanged on every path; forgetPassword changes nothing but the
\* resetPasswordLink of the one account with the given email; a password is
\* changed only by resetPassword.
FrameOfHandlers ==
  [][/\ Actor \in {"register", "login", "auth", "admin", "none"} => users' = users
     /\ \A r \in Reqs :
          (req[r].op = "forget" /\ Steps(r)) =>
            /\ Cardinality(users') = Cardinality(users)
            /\ \A u \in users :
                 \/ u \in users'
                 \/ /\ u.email = req[r].email
                    /\ [u EXCEPT !.resetPasswordLink = req[r].token] \in users'
     /\ \A u \in users, v \in users' :
          (u._id = v._id /\ u.hashed_password # v.hashed_password) => Actor = "reset"]_vars

\* A forgetPassword has written its token into the account with the given
\* email, and the other account is as it was at start-up.
FrameOfHandlers_Witness ==
  /\ \E r \in Reqs : /\ req[r].op = "forget" /\ req[r].pc = "fp_send"
                     /\ \E u \in users : /\ u.email = req[r].email
                                         /\ u.resetPasswordLink = req[r].token
  /\ \E s \in {Seed1, Seed2} : s \in users

====
